---- MODULE Spec2Model ----
(***************************************************************************)
(* Verification model of the Stock Analysis Dashboard (src/app.py).        *)
(*                                                                         *)
(* Five specifications share the module:                                   *)
(*   Spec        the view controller: URL parameters, selector widgets,    *)
(*               their on_change callbacks, the memoized fetches and the   *)
(*               render pass of main()                                     *)
(*   FetchSpec   get_financial_data on every upstream outcome              *)
(*   MetricsSpec display_key_metrics on metadata records                   *)
(*   PlotSpec    plot_financial_metrics on income statements               *)
(*   TableSpec   display_all_financial_data / safe_display_dataframe       *)
(***************************************************************************)
EXTENDS Integers, Sequences, FiniteSets, TLC

VARIABLES
    \* ---- view controller ----
    url,            \* st.query_params: [ticker, period], Absent when not in the URL
    session,        \* st.session_state: [ticker_selectbox, period_selectbox]
    phase,          \* "start" (no pass yet), "idle" (pass finished), "rerun" (pass pending)
    lastCallback,   \* on_change callback that ran since the last pass
    changes,        \* number of selector changes so far
    selected_ticker, selected_period,   \* locals of main() after the sidebar
    hist_data, financial_data,          \* locals of main(): what the fetches returned
    histCache, bundleCache,             \* st.cache_data stores of the two fetches
    histCalls, bundleCalls,             \* upstream queries issued per key
    histFirst, bundleFirst,             \* result of the first upstream query per key
    histSrc, bundleSrc,                 \* where the last pass got its result from
    page,           \* elements the last pass put on the page, in order
    raised,         \* the last pass ended in an uncaught exception
    \* ---- get_financial_data ----
    upTicker, upStmt, upInfo,   \* what yf.Ticker and its attributes do
    bundle,                     \* return value
    fetchDone,
    \* ---- display_key_metrics ----
    info, metrics, metricsRaised, metricsDone,
    \* ---- plot_financial_metrics ----
    plotIn, fig, plotDone,
    \* ---- display_all_financial_data ----
    tblIdx, tblIn, tblOut

viewVars    == <<url, session, phase, lastCallback, changes, selected_ticker,
                 selected_period, hist_data, financial_data, histCache,
                 bundleCache, histCalls, bundleCalls, histFirst, bundleFirst,
                 histSrc, bundleSrc, page, raised>>
fetchVars   == <<upTicker, upStmt, upInfo, bundle, fetchDone>>
metricsVars == <<info, metrics, metricsRaised, metricsDone>>
plotVars    == <<plotIn, fig, plotDone>>
tableVars   == <<tblIdx, tblIn, tblOut>>
vars == <<viewVars, fetchVars, metricsVars, plotVars, tableVars>>

(***************************************************************************)
(* Bounds                                                                  *)
(***************************************************************************)
MaxChanges == 1     \* selector changes per session
MaxCalls == 3       \* cap on upstream queries per key (not reached while the cache works)

(***************************************************************************)
(* View controller                                                         *)
(***************************************************************************)
Absent == "<absent>"      \* parameter not present in the URL
Unset == "<unset>"        \* widget key not yet in st.session_state
None == "<None>"          \* Python None

\* The fallback list, abridged, in the source's order.
SP500_TICKERS == <<"AAPL", "MSFT", "GOOGL">>

Range(s) == {s[i] : i \in 1..Len(s)}

period_options ==
    << [name |-> "1 Month",  value |-> "1mo"],
       [name |-> "3 Months", value |-> "3mo"],
       [name |-> "6 Months", value |-> "6mo"],
       [name |-> "1 Year",   value |-> "1y"],
       [name |-> "2 Years",  value |-> "2y"],
       [name |-> "5 Years",  value |-> "5y"] >>

PeriodNames == {period_options[i].name : i \in 1..Len(period_options)}
PeriodCodes == {period_options[i].value : i \in 1..Len(period_options)}

\* period_options[name]
PeriodCode(name) ==
    period_options[CHOOSE i \in 1..Len(period_options) : period_options[i].name = name].value

\* URL values a session can start from
UrlTickers == {Absent, "ZZZZ"} \cup Range(SP500_TICKERS)
UrlPeriods == {Absent, "xyz"} \cup PeriodCodes

\* lines 74-81.  st.query_params.get does not raise, so the except branch
\* (AAPL / 1y) is never taken.
get_query_params(qp) ==
    [ticker |-> IF qp.ticker = Absent THEN "GOOGL" ELSE qp.ticker,
     period |-> IF qp.period = Absent THEN "1y" ELSE qp.period]

\* main(), lines 357-383: the ticker the selectbox shows on a pass
\* (list positions are 1-based here, 0-based in the source)
ValidatedTicker(qp) ==
    LET url_ticker == get_query_params(qp).ticker
    IN  IF url_ticker \notin Range(SP500_TICKERS) THEN "AAPL" ELSE url_ticker

ticker_index(qp) ==
    IF ValidatedTicker(qp) \in Range(SP500_TICKERS)
    THEN CHOOSE i \in 1..Len(SP500_TICKERS) :
            /\ SP500_TICKERS[i] = ValidatedTicker(qp)
            /\ \A j \in 1..(i-1) : SP500_TICKERS[j] # ValidatedTicker(qp)
    ELSE 1

\* main(), lines 395-400
period_index(qp) ==
    LET url_period == get_query_params(qp).period
        hits == {i \in 1..Len(period_options) : period_options[i].value = url_period}
    IN  IF hits = {} THEN 4
        ELSE CHOOSE i \in hits : \A j \in hits : i <= j

\* st.selectbox with a key: the keyed session value once the widget exists,
\* options[index] on the pass that creates it.  (A Streamlit that rebuilds the
\* widget when `index` changes shows options[index] instead; on every pass
\* reached here the two agree, see C3_UrlRoundTrip.)
Selectbox(stored, options, index) ==
    IF stored = Unset THEN options[index] ELSE stored


\* update_ticker_in_url, lines 86-89: the query parameters it leaves behind
update_ticker_in_url_swapped(qp, ss) ==
    [ticker |-> get_query_params(qp).ticker,
     period |-> get_query_params(qp).period]

update_ticker_in_url(qp, ss) ==
    LET selected == ss.ticker_selectbox
        current == get_query_params(qp)
    IN  [ticker |-> selected, period |-> current.period]

\* update_period_in_url, lines 96-107
update_period_in_url(qp, ss) ==
    LET selected == PeriodCode(ss.period_selectbox)
        current == get_query_params(qp)
    IN  [ticker |-> current.ticker, period |-> selected]

(***************************************************************************)
(* Memoized fetches.  Upstream outcomes are abstracted to what main()      *)
(* branches on: a price history or None; a bundle that is None, complete   *)
(* ("full"), without income statement and actions ("bare"), or carrying a  *)
(* metadata value display_key_metrics cannot format ("malformed").         *)
(***************************************************************************)
Uncached == "<uncached>"
HistOutcomes == {None, "hist"}
BundleOutcomes == {None, "full", "bare", "malformed"}
HistKeys == Range(SP500_TICKERS) \X PeriodCodes

\* st.cache_data: the stored return value for these arguments, if any
CacheLookup_never(cache, key) == Uncached

CacheLookup(cache, key) == cache[key]

(***************************************************************************)
(* The render pass of main(), lines 420-480                                *)
(***************************************************************************)
DependentSections ==
    {"company_info", "key_metrics", "price_chart", "financial_chart",
     "statement_tables", "actions"}

\* line 427
ShowSections_either(h, f) == h # None \/ f # None

ShowSections(h, f) == h # None /\ f # None

\* Elements put on the page and whether the pass raised.  The st.error of a
\* failed fetch is part of the cached call and is shown with its result.
RenderMain(h, f) ==
    LET top == <<"header", "sidebar">>
                 \o (IF h = None THEN <<"error:get_stock_data">> ELSE <<>>)
                 \o (IF f = None THEN <<"error:get_financial_data">> ELSE <<>>)
    IN  IF ShowSections(h, f)
        THEN IF f = None \/ h = None
             THEN \* financial_data['info'] on None (line 430) or hist_data['Open'] (line 166)
                  IF f = None
                  THEN [page |-> top \o <<"company_info">>, raised |-> TRUE]
                  ELSE [page |-> top \o <<"company_info", "key_metrics">>, raised |-> TRUE]
             ELSE IF f = "malformed"
             THEN [page |-> top \o <<"company_info", "key_metrics">>, raised |-> TRUE]
             ELSE [page |-> top \o <<"company_info", "key_metrics", "price_chart">>
                              \o (IF f = "full" THEN <<"financial_chart">> ELSE <<>>)
                              \o <<"statement_tables">>
                              \o (IF f = "full" THEN <<"actions">> ELSE <<>>)
                              \o <<"footer">>,
                   raised |-> FALSE]
        ELSE [page |-> top \o <<"error:main", "footer">>, raised |-> FALSE]

(***************************************************************************)
(* Actions of the view controller                                          *)
(***************************************************************************)
ViewIdle ==
    /\ url = [ticker |-> Absent, period |-> Absent]
    /\ session = [ticker_selectbox |-> Unset, period_selectbox |-> Unset]
    /\ phase = "off"
    /\ lastCallback = "none"
    /\ changes = 0
    /\ selected_ticker = Unset
    /\ selected_period = Unset
    /\ hist_data = Unset
    /\ financial_data = Unset
    /\ histCache = [k \in HistKeys |-> Uncached]
    /\ bundleCache = [t \in Range(SP500_TICKERS) |-> Uncached]
    /\ histCalls = [k \in HistKeys |-> 0]
    /\ bundleCalls = [t \in Range(SP500_TICKERS) |-> 0]
    /\ histFirst = [k \in HistKeys |-> Unset]
    /\ bundleFirst = [t \in Range(SP500_TICKERS) |-> Unset]
    /\ histSrc = "none"
    /\ bundleSrc = "none"
    /\ page = <<>>
    /\ raised = FALSE

\* One top-to-bottom run of main()
Main ==
    /\ phase \in {"start", "rerun"}
    /\ LET ticker == Selectbox(session.ticker_selectbox, SP500_TICKERS, ticker_index(url))
           pname  == Selectbox(session.period_selectbox,
                               [i \in 1..Len(period_options) |-> period_options[i].name],
                               period_index(url))
           period == PeriodCode(pname)
           hkey   == <<ticker, period>>
           hhit   == CacheLookup(histCache, hkey)
           bhit   == CacheLookup(bundleCache, ticker)
       IN  \* the upstream is queried only on a miss
           \E hres \in (IF hhit # Uncached THEN {hhit} ELSE HistOutcomes),
              bres \in (IF bhit # Uncached THEN {bhit} ELSE BundleOutcomes) :
            /\ session' = [ticker_selectbox |-> ticker, period_selectbox |-> pname]
            /\ selected_ticker' = ticker
            /\ selected_period' = period
            /\ hist_data' = hres
            /\ financial_data' = bres
            /\ histSrc' = IF hhit # Uncached THEN "cache" ELSE "upstream"
            /\ bundleSrc' = IF bhit # Uncached THEN "cache" ELSE "upstream"
            /\ histCache' = [histCache EXCEPT ![hkey] = hres]
            /\ bundleCache' = [bundleCache EXCEPT ![ticker] = bres]
            /\ histCalls' = IF hhit # Uncached THEN histCalls
                            ELSE [histCalls EXCEPT ![hkey] = @ + 1]
            /\ bundleCalls' = IF bhit # Uncached THEN bundleCalls
                              ELSE [bundleCalls EXCEPT ![ticker] = @ + 1]
            /\ histFirst' = IF histCalls[hkey] = 0 /\ hhit = Uncached
                            THEN [histFirst EXCEPT ![hkey] = hres] ELSE histFirst
            /\ bundleFirst' = IF bundleCalls[ticker] = 0 /\ bhit = Uncached
                              THEN [bundleFirst EXCEPT ![ticker] = bres] ELSE bundleFirst
            /\ page' = RenderMain(hres, bres).page
            /\ raised' = RenderMain(hres, bres).raised
    /\ phase' = "idle"
    /\ lastCallback' = "none"
    /\ UNCHANGED <<url, changes, fetchVars, metricsVars, plotVars, tableVars>>

\* The user picks another ticker: the widget value changes, on_change runs
\* update_ticker_in_url, and a rerun is scheduled.
ChangeTicker ==
    /\ phase = "idle"
    /\ changes < MaxChanges
    /\ \E t \in Range(SP500_TICKERS) \ {session.ticker_selectbox} :
        LET ss == [session EXCEPT !.ticker_selectbox = t]
        IN  /\ session' = ss
            /\ url' = update_ticker_in_url(url, ss)
    /\ phase' = "rerun"
    /\ lastCallback' = "ticker"
    /\ changes' = changes + 1
    /\ UNCHANGED <<selected_ticker, selected_period, hist_data, financial_data,
                   histCache, bundleCache, histCalls, bundleCalls, histFirst,
                   bundleFirst, histSrc, bundleSrc, page, raised,
                   fetchVars, metricsVars, plotVars, tableVars>>

\* The user picks another period: on_change runs update_period_in_url.
ChangePeriod ==
    /\ phase = "idle"
    /\ changes < MaxChanges
    /\ \E n \in PeriodNames \ {session.period_selectbox} :
        LET ss == [session EXCEPT !.period_selectbox = n]
        IN  /\ session' = ss
            /\ url' = update_period_in_url(url, ss)
    /\ phase' = "rerun"
    /\ lastCallback' = "period"
    /\ changes' = changes + 1
    /\ UNCHANGED <<selected_ticker, selected_period, hist_data, financial_data,
                   histCache, bundleCache, histCalls, bundleCalls, histFirst,
                   bundleFirst, histSrc, bundleSrc, page, raised,
                   fetchVars, metricsVars, plotVars, tableVars>>

\* The "Start Analysis" button (line 412): a rerun and nothing else.
ClickAnalyze ==
    /\ phase = "idle"
    /\ histCalls[<<selected_ticker, selected_period>>] < MaxCalls
    /\ bundleCalls[selected_ticker] < MaxCalls
    /\ phase' = "rerun"
    /\ lastCallback' = "none"
    /\ UNCHANGED <<url, session, changes, selected_ticker, selected_period,
                   hist_data, financial_data, histCache, bundleCache, histCalls,
                   bundleCalls, histFirst, bundleFirst, histSrc, bundleSrc, page,
                   raised, fetchVars, metricsVars, plotVars, tableVars>>


(***************************************************************************)
(* get_financial_data, lines 122-150                                       *)
(***************************************************************************)
PyNone == [kind |-> "None"]
Raised == [kind |-> "raised"]         \* an exception leaving a call

\* pd.DataFrame(): the default of safe_get_data
EmptyFrame == [kind |-> "table", of |-> "default", empty |-> TRUE]

\* bundle key and the yfinance attribute it is read from, in source order
Statements ==
    << [key |-> "financials",              attr |-> "financials"],
       [key |-> "quarterly_financials",    attr |-> "quarterly_financials"],
       [key |-> "income_stmt",             attr |-> "income_stmt"],
       [key |-> "quarterly_income_stmt",   attr |-> "quarterly_income_stmt"],
       [key |-> "balance_sheet",           attr |-> "balance_sheet"],
       [key |-> "quarterly_balance_sheet", attr |-> "quarterly_balance_sheet"],
       [key |-> "cash_flow",               attr |-> "cashflow"],
       [key |-> "quarterly_cash_flow",     attr |-> "quarterly_cashflow"],
       [key |-> "actions",                 attr |-> "actions"] >>

StatementKeys == {Statements[i].key : i \in 1..Len(Statements)}
StatementAttrs == {Statements[i].attr : i \in 1..Len(Statements)}
AttrOf(key) == Statements[CHOOSE i \in 1..Len(Statements) : Statements[i].key = key].attr

\* What reading one attribute of the yfinance Ticker does
AttrOutcomes == {"raise", "none", "empty", "data"}

\* func(): the value the property returns, or the exception it raises
CallAttr(up, attr) ==
    CASE up[attr] = "raise" -> Raised
      [] up[attr] = "none"  -> PyNone
      [] up[attr] = "empty" -> [kind |-> "table", of |-> attr, empty |-> TRUE]
      [] OTHER              -> [kind |-> "table", of |-> attr, empty |-> FALSE]

\* lines 129-134
safe_get_data_unguarded(up, attr) ==
    LET data == CallAttr(up, attr)
    IN  IF data # PyNone THEN data ELSE EmptyFrame

safe_get_data(up, attr) ==
    LET data == CallAttr(up, attr)
    IN  IF data = Raised THEN EmptyFrame
        ELSE IF data # PyNone THEN data ELSE EmptyFrame

\* lines 125-150: the bundle, or None when anything reaches the outer except
get_financial_data(upT, upS, upI) ==
    IF upT = "raise" THEN PyNone
    ELSE LET entries == [k \in StatementKeys |-> safe_get_data(upS, AttrOf(k))]
         IN  IF \E k \in StatementKeys : entries[k] = Raised THEN PyNone
             ELSE IF upI = "raise" THEN PyNone
             ELSE [kind |-> "bundle",
                   statements |-> entries,
                   info |-> IF upI = "noattr" THEN "{}" ELSE "info"]

MaxFailures == 2    \* statements whose sub-fetch does not return a filled table

FetchIdle ==
    /\ upTicker = "ok"
    /\ upStmt = [a \in StatementAttrs |-> "data"]
    /\ upInfo = "ok"
    /\ bundle = PyNone
    /\ fetchDone = TRUE

FetchInit ==
    /\ upTicker \in {"ok", "raise"}
    /\ upInfo \in {"ok", "raise", "noattr"}
    /\ upStmt \in [StatementAttrs -> AttrOutcomes]
    /\ Cardinality({a \in StatementAttrs : upStmt[a] # "data"}) <= MaxFailures
    /\ bundle = PyNone
    /\ fetchDone = FALSE

GetFinancialData ==
    /\ ~fetchDone
    /\ bundle' = get_financial_data(upTicker, upStmt, upInfo)
    /\ fetchDone' = TRUE
    /\ UNCHANGED <<upTicker, upStmt, upInfo, viewVars, metricsVars, plotVars, tableVars>>

(***************************************************************************)
(* plot_financial_metrics, lines 194-240                                   *)
(***************************************************************************)
MaxCols == 2        \* period columns of a statement
LineItems == {"Total Revenue", "Net Income", "Gross Profit"}

\* A statement: its row index and its number of period columns
Frames == [index : SUBSET LineItems, ncols : 0..MaxCols]

\* DataFrame.empty: some axis has length 0
IsEmpty(df) == df.index = {} \/ df.ncols = 0

Cells == {<<1, 1>>, <<1, 2>>, <<2, 1>>, <<2, 2>>}
NoTrace == [name |-> "", points |-> 0]

plot_financial_metrics_ungated(fd) ==
    IF IsEmpty(fd.income_stmt) THEN PyNone
    ELSE LET income_stmt == fd.income_stmt
             quarterly_income == fd.quarterly_income_stmt
             Bar(n, df) == [name |-> n, points |-> df.ncols]
         IN  [kind |-> "figure",
              traces |->
                [c \in Cells |->
                   CASE c = <<1, 1>> /\ "Total Revenue" \in income_stmt.index
                          -> Bar("Annual Revenue", income_stmt)
                     [] c = <<1, 2>> /\ "Net Income" \in income_stmt.index
                          -> Bar("Annual Net Income", income_stmt)
                     [] c = <<2, 1>> /\ "Total Revenue" \in quarterly_income.index
                          -> Bar("Quarterly Revenue", quarterly_income)
                     [] c = <<2, 2>> /\ "Net Income" \in quarterly_income.index
                          -> Bar("Quarterly Net Income", quarterly_income)
                     [] OTHER -> NoTrace]]

plot_financial_metrics(fd) ==
    IF IsEmpty(fd.income_stmt) THEN PyNone
    ELSE LET income_stmt == fd.income_stmt
             quarterly_income == fd.quarterly_income_stmt
             Bar(n, df) == [name |-> n, points |-> df.ncols]
         IN  [kind |-> "figure",
              traces |->
                [c \in Cells |->
                   CASE c = <<1, 1>> /\ "Total Revenue" \in income_stmt.index
                          -> Bar("Annual Revenue", income_stmt)
                     [] c = <<1, 2>> /\ "Net Income" \in income_stmt.index
                          -> Bar("Annual Net Income", income_stmt)
                     [] c = <<2, 1>> /\ ~IsEmpty(quarterly_income)
                                     /\ "Total Revenue" \in quarterly_income.index
                          -> Bar("Quarterly Revenue", quarterly_income)
                     [] c = <<2, 2>> /\ ~IsEmpty(quarterly_income)
                                     /\ "Net Income" \in quarterly_income.index
                          -> Bar("Quarterly Net Income", quarterly_income)
                     [] OTHER -> NoTrace]]

PlotIdle ==
    /\ plotIn = [income_stmt |-> [index |-> {}, ncols |-> 0],
                 quarterly_income_stmt |-> [index |-> {}, ncols |-> 0]]
    /\ fig = PyNone
    /\ plotDone = TRUE

PlotInit ==
    /\ plotIn \in [income_stmt : Frames, quarterly_income_stmt : Frames]
    /\ fig = PyNone
    /\ plotDone = FALSE

PlotFinancialMetrics ==
    /\ ~plotDone
    /\ fig' = plot_financial_metrics(plotIn)
    /\ plotDone' = TRUE
    /\ UNCHANGED <<plotIn, viewVars, fetchVars, metricsVars, tableVars>>


(***************************************************************************)
(* display_key_metrics, lines 242-291                                      *)
(*                                                                         *)
(* A metadata value is a number, None, or a string.  Numbers are kept as   *)
(* integers: hundredths for prices and ratios, ten-thousandths for the     *)
(* dividend yield (a fraction), units for market cap and volume.           *)
(***************************************************************************)
NA == "N/A"
Missing == [k |-> "absent"]           \* key not in the dict
Null == [k |-> "None"]                \* key present, value None
BadStr == [k |-> "str", s |-> "abc"]  \* key present, non-numeric string
Num(n) == [k |-> "num", n |-> n]

Fields == {"marketCap", "trailingPE", "currentPrice", "regularMarketPrice",
           "dividendYield", "dayHigh", "dayLow", "bookValue", "volume", "beta"}

\* a sample value per field, as the provider could return it
Sample(f) ==
    CASE f = "marketCap"          -> Num(1234567890)
      [] f = "trailingPE"         -> Num(2873)
      [] f = "currentPrice"       -> Num(18905)
      [] f = "regularMarketPrice" -> Num(18850)
      [] f = "dividendYield"      -> Num(52)
      [] f = "dayHigh"            -> Num(19005)
      [] f = "dayLow"             -> Num(18801)
      [] f = "bookValue"          -> Num(407)
      [] f = "volume"             -> Num(48123456)
      [] OTHER                    -> Num(-129)

\* info.get(key, default)
Get(d, key, default) == IF d[key] = Missing THEN default ELSE d[key]

\* the 'N/A' default of info.get, as a value
NAVal == [k |-> "str", s |-> NA]

Pad2(n) == IF n < 10 THEN "0" \o ToString(n) ELSE ToString(n)
Pad3(n) == IF n < 10 THEN "00" \o ToString(n)
           ELSE IF n < 100 THEN "0" \o ToString(n) ELSE ToString(n)

\* format spec ".2f" applied to c hundredths
Fixed2(c) ==
    IF c < 0 THEN "-" \o ToString((-c) \div 100) \o "." \o Pad2((-c) % 100)
    ELSE ToString(c \div 100) \o "." \o Pad2(c % 100)

\* format spec "," applied to a non-negative integer
RECURSIVE Grouped(_)
Grouped(n) ==
    IF n < 1000 THEN ToString(n)
    ELSE Grouped(n \div 1000) \o "," \o Pad3(n % 1000)

\* A format spec applied to a value: numeric specs raise on None and on str
Formatted(v, text) ==
    IF v.k = "num" THEN [ok |-> TRUE, text |-> text] ELSE [ok |-> FALSE, text |-> ""]

\* One scalar metric: value = info.get(...); if value != 'N/A': value = f"..."
Scalar(v, text) ==
    IF v # NAVal THEN Formatted(v, text) ELSE [ok |-> TRUE, text |-> NA]

NumOf(v) == IF v.k = "num" THEN v.n ELSE 0

\* lines 269-274
DayRange_either(d) ==
    LET day_high == Get(d, "dayHigh", NAVal)
        day_low  == Get(d, "dayLow", NAVal)
        part(v)  == IF v.k = "num" THEN "$" \o Fixed2(v.n) ELSE NA
    IN  IF day_high # NAVal \/ day_low # NAVal
        THEN [ok |-> TRUE, text |-> part(day_low) \o " - " \o part(day_high)]
        ELSE [ok |-> TRUE, text |-> NA]

DayRange(d) ==
    LET day_high == Get(d, "dayHigh", NAVal)
        day_low  == Get(d, "dayLow", NAVal)
    IN  IF day_high # NAVal /\ day_low # NAVal
        THEN IF day_low.k = "num" /\ day_high.k = "num"
             THEN [ok |-> TRUE,
                   text |-> "$" \o Fixed2(day_low.n) \o " - $" \o Fixed2(day_high.n)]
             ELSE [ok |-> FALSE, text |-> ""]
        ELSE [ok |-> TRUE, text |-> NA]

MetricLabels == <<"Market Cap", "P/E Ratio", "Current Price", "Dividend Yield",
                  "Day Range", "Book Value", "Volume", "Beta">>

\* The i-th st.metric of the panel: its value, or the exception raised on the way
Metric(i, d) ==
    CASE i = 1 -> LET v == Get(d, "marketCap", NAVal)
                  IN  Scalar(v, "$" \o Grouped(NumOf(v)))
      [] i = 2 -> LET v == Get(d, "trailingPE", NAVal)
                  IN  Scalar(v, Fixed2(NumOf(v)))
      [] i = 3 -> LET v == Get(d, "currentPrice", Get(d, "regularMarketPrice", NAVal))
                  IN  Scalar(v, "$" \o Fixed2(NumOf(v)))
      [] i = 4 -> LET v == Get(d, "dividendYield", NAVal)
                  IN  Scalar(v, Fixed2(NumOf(v)) \o "%")
      [] i = 5 -> DayRange(d)
      [] i = 6 -> LET v == Get(d, "bookValue", NAVal)
                  IN  Scalar(v, "$" \o Fixed2(NumOf(v)))
      [] i = 7 -> LET v == Get(d, "volume", NAVal)
                  IN  Scalar(v, Grouped(NumOf(v)))
      [] OTHER -> LET v == Get(d, "beta", NAVal)
                  IN  Scalar(v, Fixed2(NumOf(v)))

\* The metrics rendered up to and excluding the first one that raises
RECURSIVE Rendered(_, _)
Rendered(i, d) ==
    IF i > Len(MetricLabels) THEN <<>>
    ELSE LET m == Metric(i, d)
         IN  IF m.ok THEN <<[label |-> MetricLabels[i], value |-> m.text]>> \o Rendered(i + 1, d)
             ELSE <<>>

display_key_metrics(d) ==
    LET out == Rendered(1, d)
    IN  [metrics |-> out, raised |-> Len(out) < Len(MetricLabels)]

MaxMalformed == 1   \* fields of one record holding None or a non-numeric string

MetricsIdle ==
    /\ info = [f \in Fields |-> Missing]
    /\ metrics = <<>>
    /\ metricsRaised = FALSE
    /\ metricsDone = TRUE

Shapes == {"absent", "None", "str", "num"}

ValueOf(f, shape) ==
    CASE shape = "absent" -> Missing
      [] shape = "None"   -> Null
      [] shape = "str"    -> BadStr
      [] OTHER            -> Sample(f)

MetricsInit ==
    /\ \E shape \in [Fields -> Shapes] :
        /\ Cardinality({f \in Fields : shape[f] \in {"None", "str"}}) <= MaxMalformed
        /\ info = [f \in Fields |-> ValueOf(f, shape[f])]
    /\ metrics = <<>>
    /\ metricsRaised = FALSE
    /\ metricsDone = FALSE

DisplayKeyMetrics ==
    /\ ~metricsDone
    /\ LET r == display_key_metrics(info)
       IN  /\ metrics' = r.metrics
           /\ metricsRaised' = r.raised
    /\ metricsDone' = TRUE
    /\ UNCHANGED <<info, viewVars, fetchVars, plotVars, tableVars>>


(***************************************************************************)
(* safe_display_dataframe and display_all_financial_data, lines 293-353    *)
(***************************************************************************)
MaxRows == 1        \* rows of a displayed table
MaxWidth == 1       \* columns of a displayed table

\* The eight tables in display order: bundle key, title, warning text
TableOrder ==
    << [key |-> "financials", title |-> "Annual Financials",
        warning |-> "No annual financial data available."],
       [key |-> "income_stmt", title |-> "Annual Income Statement",
        warning |-> "No Annual Income Statement data available."],
       [key |-> "balance_sheet", title |-> "Annual Balance Sheet",
        warning |-> "No Annual Balance Sheet data available."],
       [key |-> "cash_flow", title |-> "Annual Cash Flow",
        warning |-> "No Annual Cash Flow data available."],
       [key |-> "quarterly_financials", title |-> "Quarterly Financials",
        warning |-> "No quarterly financial data available."],
       [key |-> "quarterly_income_stmt", title |-> "Quarterly Income Statement",
        warning |-> "No Quarterly Income Statement data available."],
       [key |-> "quarterly_balance_sheet", title |-> "Quarterly Balance Sheet",
        warning |-> "No Quarterly Balance Sheet data available."],
       [key |-> "quarterly_cash_flow", title |-> "Quarterly Cash Flow",
        warning |-> "No Quarterly Cash Flow data available."] >>

\* What can be handed to safe_display_dataframe: None or a table; `fails`
\* says whether st.dataframe raises on it.
TableInputs ==
    [kind : {"None"}, nrows : {0}, ncols : {0}, fails : {FALSE}]
    \cup [kind : {"table"}, nrows : 0..MaxRows, ncols : 0..MaxWidth, fails : BOOLEAN]

\* data.empty
FrameEmpty(data) == data.nrows = 0 \/ data.ncols = 0

\* lines 295-305: the elements the call puts on the page
safe_display_dataframe_unchecked(data, title, warning_msg) ==
    IF data.kind # "None"
    THEN IF data.fails
         THEN <<"error:Error displaying " \o title, "warning:Unable to display " \o title \o " data.">>
         ELSE <<"dataframe">>
    ELSE <<"warning:" \o warning_msg>>

safe_display_dataframe(data, title, warning_msg) ==
    IF data.kind # "None" /\ ~FrameEmpty(data)
    THEN IF data.ncols > 0 /\ data.nrows > 0
         THEN IF data.fails
              THEN <<"error:Error displaying " \o title,
                     "warning:Unable to display " \o title \o " data.">>
              ELSE <<"dataframe">>
         ELSE <<"warning:" \o warning_msg>>
    ELSE <<"warning:" \o warning_msg>>

TableIdle ==
    /\ tblIdx = Len(TableOrder)
    /\ tblIn = [kind |-> "None", nrows |-> 0, ncols |-> 0, fails |-> FALSE]
    /\ tblOut = <<>>

TableInit ==
    /\ tblIdx = 0
    /\ tblIn = [kind |-> "None", nrows |-> 0, ncols |-> 0, fails |-> FALSE]
    /\ tblOut = <<>>

\* display_all_financial_data: the next subheader and its table
DisplayNextTable ==
    /\ tblIdx < Len(TableOrder)
    /\ \E data \in TableInputs :
        LET t == TableOrder[tblIdx + 1]
        IN  /\ tblIn' = data
            /\ tblOut' = Append(tblOut,
                  [title |-> t.title,
                   elems |-> safe_display_dataframe(data, t.title, t.warning)])
    /\ tblIdx' = tblIdx + 1
    /\ UNCHANGED <<viewVars, fetchVars, metricsVars, plotVars>>

(***************************************************************************)
(* Specifications                                                          *)
(***************************************************************************)
ViewInit ==
    /\ url \in [ticker : UrlTickers, period : UrlPeriods]
    /\ session = [ticker_selectbox |-> Unset, period_selectbox |-> Unset]
    /\ phase = "start"
    /\ lastCallback = "none"
    /\ changes = 0
    /\ selected_ticker = Unset
    /\ selected_period = Unset
    /\ hist_data = Unset
    /\ financial_data = Unset
    /\ histCache = [k \in HistKeys |-> Uncached]
    /\ bundleCache = [t \in Range(SP500_TICKERS) |-> Uncached]
    /\ histCalls = [k \in HistKeys |-> 0]
    /\ bundleCalls = [t \in Range(SP500_TICKERS) |-> 0]
    /\ histFirst = [k \in HistKeys |-> Unset]
    /\ bundleFirst = [t \in Range(SP500_TICKERS) |-> Unset]
    /\ histSrc = "none"
    /\ bundleSrc = "none"
    /\ page = <<>>
    /\ raised = FALSE

Init == ViewInit /\ FetchIdle /\ MetricsIdle /\ PlotIdle /\ TableIdle
Next == Main \/ ChangeTicker \/ ChangePeriod \/ ClickAnalyze
Spec == Init /\ [][Next]_vars

FetchSpecInit == ViewIdle /\ FetchInit /\ MetricsIdle /\ PlotIdle /\ TableIdle
FetchNext == GetFinancialData
FetchSpec == FetchSpecInit /\ [][FetchNext]_vars

MetricsSpecInit == ViewIdle /\ FetchIdle /\ MetricsInit /\ PlotIdle /\ TableIdle
MetricsNext == DisplayKeyMetrics
MetricsSpec == MetricsSpecInit /\ [][MetricsNext]_vars

PlotSpecInit == ViewIdle /\ FetchIdle /\ MetricsIdle /\ PlotInit /\ TableIdle
PlotNext == PlotFinancialMetrics
PlotSpec == PlotSpecInit /\ [][PlotNext]_vars

TableSpecInit == ViewIdle /\ FetchIdle /\ MetricsIdle /\ PlotIdle /\ TableInit
TableNext == DisplayNextTable
TableSpec == TableSpecInit /\ [][TableNext]_vars


(***************************************************************************)
(* Properties                                                              *)
(***************************************************************************)
Count(seq, x) == Cardinality({i \in 1..Len(seq) : seq[i] = x})

\* The pass that opens a session has finished and no selector was touched
FirstPassDone == phase = "idle" /\ changes = 0

\* C1: after the opening pass, a URL ticker that is absent or outside the
\* universe gives the selected ticker AAPL, and a URL period that is absent or
\* not one of the six codes gives the selected period 1y, without error.
C1_DefaultsOnAbsentOrInvalid ==
    FirstPassDone =>
        /\ url.ticker \notin Range(SP500_TICKERS) => selected_ticker = "AAPL"
        /\ url.period \notin PeriodCodes => selected_period = "1y"

\* C2: right after an on_change callback of either selector, the URL ticker
\* is the selected ticker and the URL period is the code of the selected
\* period.
C2_UrlMirrorsSelection ==
    (phase = "rerun" /\ lastCallback \in {"ticker", "period"}) =>
        /\ url.ticker = session.ticker_selectbox
        /\ url.period = PeriodCode(session.period_selectbox)

\* What a view opened on query parameters qp selects (no widget state yet)
FreshTicker(qp) == Selectbox(Unset, SP500_TICKERS, ticker_index(qp))
FreshPeriod(qp) == period_options[period_index(qp)].value

\* C3: a view opened on a universe ticker and one of the six period codes
\* selects exactly those; and whenever a pass has finished, after any selector
\* changes, a fresh view opened on the URL as it stands selects the same
\* ticker and period as the running session.
C3_UrlRoundTrip ==
    /\ (FirstPassDone /\ url.ticker \in Range(SP500_TICKERS) /\ url.period \in PeriodCodes)
          => (selected_ticker = url.ticker /\ selected_period = url.period)
    /\ phase = "idle"
          => (selected_ticker = FreshTicker(url) /\ selected_period = FreshPeriod(url))

\* a session that changed a selector and now shows MSFT over 3 months
C3_Witness ==
    /\ phase = "idle"
    /\ changes >= 1
    /\ selected_ticker = "MSFT"
    /\ selected_period = "3mo"

\* C6: when the bundle fetch returned None, the pass finishes without raising,
\* shows the top-level error message of main() exactly once and renders none
\* of the dependent sections.
C6_BundleFailureSuppressesSections ==
    (phase = "idle" /\ financial_data = None) =>
        /\ ~raised
        /\ Count(page, "error:main") = 1
        /\ Range(page) \cap DependentSections = {}

\* the bundle failed while the price history was fetched
C6_Witness ==
    /\ phase = "idle"
    /\ financial_data = None
    /\ hist_data = "hist"

\* C7: the upstream price-history query is issued at most once per
\* (ticker, period) and the upstream bundle query at most once per ticker, and
\* every pass gets the result of the first query for its key, None included.
C7_FetchesMemoized ==
    /\ \A k \in HistKeys : histCalls[k] <= 1
    /\ \A t \in Range(SP500_TICKERS) : bundleCalls[t] <= 1
    /\ phase = "idle" =>
          /\ hist_data = histFirst[<<selected_ticker, selected_period>>]
          /\ financial_data = bundleFirst[selected_ticker]

\* a pass served from both caches, the cached bundle being a failure
C7_Witness ==
    /\ phase = "idle"
    /\ histSrc = "cache"
    /\ bundleSrc = "cache"
    /\ financial_data = None
    /\ hist_data = "hist"

\* C5: the bundle is None exactly when the top-level call throws (the Ticker
\* constructor or the unguarded metadata read); otherwise every statement
\* entry whose sub-fetch failed or returned None is an empty table and every
\* other entry is the value its own sub-fetch returned.
C5_SubFetchesIsolated ==
    fetchDone =>
        /\ bundle = PyNone <=> (upTicker = "raise" \/ upInfo = "raise")
        /\ bundle # PyNone =>
              \A i \in 1..Len(Statements) :
                 LET e == bundle.statements[Statements[i].key]
                     o == upStmt[Statements[i].attr]
                 IN  /\ o \in {"raise", "none"} => (e.kind = "table" /\ e.empty /\ e.of = "default")
                     /\ o = "empty" => e = [kind |-> "table", of |-> Statements[i].attr, empty |-> TRUE]
                     /\ o = "data" => e = [kind |-> "table", of |-> Statements[i].attr, empty |-> FALSE]

\* exactly one sub-fetch raised and the bundle was still delivered
C5_Witness ==
    /\ fetchDone
    /\ bundle # PyNone
    /\ Cardinality({a \in StatementAttrs : upStmt[a] = "raise"}) = 1
    /\ Cardinality({a \in StatementAttrs : upStmt[a] = "data"}) = Cardinality(StatementAttrs) - 1

\* C4: display_key_metrics never raises, whatever the record holds, and
\* renders all eight metrics.
C4_MetricsNeverRaise ==
    metricsDone => (~metricsRaised /\ Len(metrics) = Len(MetricLabels))

IsPresent(f) == info[f] # Missing

\* C10: whenever the day-range metric is rendered it reads "$low - $high",
\* two decimals each, if dayHigh and dayLow are both present, and "N/A" if
\* either or both are absent.
C10_DayRangeAllOrNothing ==
    (metricsDone /\ Len(metrics) >= 5) =>
        /\ metrics[5].label = "Day Range"
        /\ (IsPresent("dayHigh") /\ IsPresent("dayLow")) => metrics[5].value = "$188.01 - $190.05"
        /\ (~IsPresent("dayHigh") \/ ~IsPresent("dayLow")) => metrics[5].value = NA

\* only the day low is present and the panel shows N/A for the range
C10_Witness ==
    /\ metricsDone
    /\ Len(metrics) >= 5
    /\ IsPresent("dayLow")
    /\ ~IsPresent("dayHigh")
    /\ metrics[5].value = NA

Populated(c) == fig.traces[c] # NoTrace

\* C8: the chart is None exactly when the annual income statement is empty;
\* otherwise each of the four cells is populated iff its line item is in the
\* row index of its statement, the quarterly cells only if the quarterly
\* statement is non-empty.
C8_ChartCells ==
    plotDone =>
        /\ fig = PyNone <=> IsEmpty(plotIn.income_stmt)
        /\ fig # PyNone =>
              /\ Populated(<<1, 1>>) <=> "Total Revenue" \in plotIn.income_stmt.index
              /\ Populated(<<1, 2>>) <=> "Net Income" \in plotIn.income_stmt.index
              /\ Populated(<<2, 1>>) <=>
                    (~IsEmpty(plotIn.quarterly_income_stmt)
                     /\ "Total Revenue" \in plotIn.quarterly_income_stmt.index)
              /\ Populated(<<2, 2>>) <=>
                    (~IsEmpty(plotIn.quarterly_income_stmt)
                     /\ "Net Income" \in plotIn.quarterly_income_stmt.index)

\* a chart whose only filled cell is annual revenue: the annual statement
\* lacks net income, the quarterly one lists both items but has no columns
C8_Witness ==
    /\ plotDone
    /\ fig # PyNone
    /\ plotIn.income_stmt.index = {"Total Revenue"}
    /\ plotIn.quarterly_income_stmt = [index |-> {"Total Revenue", "Net Income"}, ncols |-> 0]
    /\ Populated(<<1, 1>>)
    /\ ~Populated(<<2, 1>>)

Displayable(data) == data.kind # "None" /\ data.nrows >= 1 /\ data.ncols >= 1

\* C9: the tables are processed in their fixed order, one result each; the
\* table just processed is displayed iff it is non-null with at least one row
\* and one column and rendering did not raise; a null or empty table gives its
\* warning placeholder; a table whose rendering raised gives a placeholder too
\* and the tables after it are still processed.
C9_TablesDegradeIndependently ==
    /\ Len(tblOut) = tblIdx
    /\ \A i \in 1..Len(tblOut) : tblOut[i].title = TableOrder[i].title
    /\ tblIdx >= 1 =>
          LET last == tblOut[tblIdx]
          IN  /\ (last.elems = <<"dataframe">>) <=> (Displayable(tblIn) /\ ~tblIn.fails)
              /\ ~Displayable(tblIn) => last.elems = <<"warning:" \o TableOrder[tblIdx].warning>>
              /\ (Displayable(tblIn) /\ tblIn.fails) =>
                    (Len(last.elems) = 2
                     /\ last.elems[2] = "warning:Unable to display " \o last.title \o " data.")

\* all eight tables processed although the first one failed to render and
\* the last one has rows but no columns
C9_Witness ==
    /\ tblIdx = Len(TableOrder)
    /\ Len(tblOut) = Len(TableOrder)
    /\ Len(tblOut[1].elems) = 2
    /\ tblIn.kind = "table" /\ tblIn.nrows = 1 /\ tblIn.ncols = 0
    /\ tblOut[Len(TableOrder)].elems = <<"warning:No Quarterly Cash Flow data available.">>

====
